---- MODULE Spec2Model ----
(***************************************************************************)
(* FinanceBot browser client: the thread-scoped upload state of            *)
(* frontend/src/App.tsx (threadUploads, threadView, messages, threads,     *)
(* currentThreadId and the requests in flight) and the chat handler of the *)
(* single-bucket App (handleChat: routing, fallback upload, recovery).     *)
(* Every await of the source is a request put in flight by one action and  *)
(* resolved by another; the continuation runs with the values its closure  *)
(* captured when the handler was called.                                   *)
(***************************************************************************)
EXTENDS Integers, Sequences, FiniteSets, TLC

\* frontend/src/App.tsx
VARIABLES currentThreadId, threadUploads, threadView, threads, messages,
          serverThreads, deletedThreads

\* the App with one upload state and handleChat
VARIABLES files, results, result, error, loading, chatQuestion, chatAnswer,
          chatLoading, chats

\* sessionManager.js: the localStorage entry, the sessionId of each
\* constructed SessionManager, and the identifiers generated so far
VARIABLES storage, managers, generated

\* which localStorage calls throw, and the constructions that ended with an
\* exception
VARIABLES storageAccess, thrown

\* requests awaiting a response, the operations left to the user, and the
\* operation that ran last
VARIABLES inflight, budget, last

\* the native file input of the upload view (fileInputRef.current and its
\* FileList), and whether the browser can construct a DataTransfer
VARIABLES fileInput, dataTransfer

threadVars == <<currentThreadId, threadUploads, threadView, threads, messages,
                serverThreads, deletedThreads, fileInput, dataTransfer>>

chatVars == <<files, results, result, error, loading, chatQuestion,
              chatAnswer, chatLoading, chats>>

sessionVars == <<storage, managers, generated, storageAccess, thrown>>

vars == <<threadVars, chatVars, sessionVars, inflight, budget, last>>

(* ------------------------------ bounds --------------------------------- *)

\* user operations (select, new chat, delete, view, file change, remove,
\* submit) per run of the App with thread buckets
MaxUserOps == 4

\* user operations per run of the App with one upload state
MaxChatOps == 5

\* handleChat calls awaiting a response at one time
MaxChats == 1

\* SessionManager constructions (page loads sharing one localStorage)
MaxManagers == 4

\* requests awaiting their response at one time
MaxInflight == 2

\* results in one upload / documents response
MaxBatch == 2

\* files in one selection event
MaxSelect == 2

(* ------------------------------ domains -------------------------------- *)

NoThread == "null"

\* type ThreadViewMode
ViewModes == {"upload", "chat"}

ThreadIds == {"tA", "tB"}

DocIds == {"d1", "d2"}

NoResult == [document_id |-> "null", rev |-> 0]

\* File objects; obj tells two File objects with equal fields apart
FileUniverse ==
    { [name |-> "a.pdf", size |-> 1, lastModified |-> 1, obj |-> 1],
      [name |-> "a.pdf", size |-> 1, lastModified |-> 1, obj |-> 2],
      [name |-> "a.pdf", size |-> 2, lastModified |-> 1, obj |-> 3] }

ValidationMessage == "Please select a file (.pdf, .docx, .csv, .xlsx)"

UploadFailedMessage == "Upload failed"

NoDetail == "undefined"

\* error.response?.data?.detail as the server may send it
ServerDetails == {NoDetail, "", "Unsupported file type"}

RECURSIVE SeqsUpTo(_, _)
SeqsUpTo(S, n) ==
    IF n = 0 THEN {<<>>}
    ELSE LET shorter == SeqsUpTo(S, n - 1)
         IN  shorter \cup {Append(s, x) : s \in shorter, x \in S}

Range(s) == {s[i] : i \in 1..Len(s)}

DistinctSeqs(S, n) == {s \in SeqsUpTo(S, n) : Cardinality(Range(s)) = Len(s)}

\* response.data.results of POST /upload-multiple: document ids are
\* server-assigned and unique within one response
UploadBatches == DistinctSeqs(DocIds, MaxBatch)

\* response.data.documents of GET /threads/{id}/documents
DocumentBatches == DistinctSeqs(DocIds, MaxBatch)

\* e.target.files of one change event
Selections == SeqsUpTo(FileUniverse, MaxSelect)

\* change events that pick one file
SingleSelections == {s \in Selections : Len(s) = 1}

(* ---------------------------- pure helpers ----------------------------- *)

getDefaultUploadState ==
    [files |-> <<>>, loading |-> FALSE, error |-> "", results |-> <<>>,
     result |-> NoResult]

\* threadUploads[tid] || getDefaultUploadState()
BucketOf(uploads, tid) ==
    IF tid \in DOMAIN uploads THEN uploads[tid] ELSE getDefaultUploadState

getCurrentUploadState ==
    IF currentThreadId = NoThread THEN getDefaultUploadState
    ELSE BucketOf(threadUploads, currentThreadId)

\* { ...prev, [tid]: bucket }
PutBucket(uploads, tid, bucket) ==
    [t \in DOMAIN uploads \cup {tid} |-> IF t = tid THEN bucket ELSE uploads[t]]

\* `${f.name}|${f.size}|${f.lastModified}`
FileKey(f) == <<f.name, f.size, f.lastModified>>

PushFile(m, f) == Append(m, f)

\* byKey.set(key, f): a Map keeps the position of a key it already holds
SetFile(m, f) ==
    IF \E i \in 1..Len(m) : FileKey(m[i]) = FileKey(f)
    THEN [i \in 1..Len(m) |-> IF FileKey(m[i]) = FileKey(f) THEN f ELSE m[i]]
    ELSE Append(m, f)

RECURSIVE SetAllFiles(_, _)
SetAllFiles(m, fs) ==
    IF fs = <<>> THEN m ELSE SetAllFiles(SetFile(m, Head(fs)), Tail(fs))

MergeFiles(prev, incoming) == SetAllFiles(SetAllFiles(<<>>, prev), incoming)

\* prev.files.filter((_, i) => i !== index), index counted from 0
RemoveAt(fs, index) ==
    [i \in 1..(Len(fs) - (IF index + 1 \in 1..Len(fs) THEN 1 ELSE 0)) |->
        IF i < index + 1 THEN fs[i] ELSE fs[i + 1]]

PushResult(m, r) == Append(m, r)

\* existingById.set(r.document_id, r)
SetResult(m, r) ==
    IF \E i \in 1..Len(m) : m[i].document_id = r.document_id
    THEN [i \in 1..Len(m) |->
            IF m[i].document_id = r.document_id THEN r ELSE m[i]]
    ELSE Append(m, r)

RECURSIVE SetAllResults(_, _)
SetAllResults(m, rs) ==
    IF rs = <<>> THEN m ELSE SetAllResults(SetResult(m, Head(rs)), Tail(rs))

\* results taken from the response alone
ResultsOfResponseOnly(prev, list) == SetAllResults(<<>>, list)

\* byId = new Map(prev.results by document_id); list.forEach(set);
\* Array.from(byId.values())
MergeResults(prev, list) == SetAllResults(SetAllResults(<<>>, prev), list)

\* list[0] || null
FirstOf(list) == IF Len(list) > 0 THEN list[1] ELSE NoResult

GenericUploadError(detail) == UploadFailedMessage

\* error.response?.data?.detail || 'Upload failed'
UploadErrorText(detail) ==
    IF detail = NoDetail \/ detail = "" THEN UploadFailedMessage ELSE detail

\* the AnalysisResult values a response delivers for ids; rev stands for
\* the other fields and tells the values of one response from another's
Delivered(ids, rev) ==
    [i \in 1..Len(ids) |-> [document_id |-> ids[i], rev |-> rev]]

\* rev of the entries of upload response n and of documents response n
UploadRev(n) == n

DocumentsRev(n) == 10 + n

Ids(rs) == [i \in 1..Len(rs) |-> rs[i].document_id]

(* ------------------------- App.tsx: state ------------------------------ *)

\* handleChat calls that can await a response at one time
ChatCalls == 1..MaxChats

\* a handleChat call: where it awaits, what its closure captured, the
\* requests it has issued
IdleChat ==
    [pc |-> "idle", question |-> "", files |-> <<>>, results |-> <<>>,
     result |-> NoResult, log |-> <<>>]

EmptyMap == [t \in {} |-> getDefaultUploadState]

\* transcript entries the server holds for thread tid
Message(tid, n) == [thread |-> tid, seq |-> n]

\* response.data.messages of GET /threads/{id}/messages
MessageLists(tid) == {<<>>, <<Message(tid, 1)>>}

\* an entry left in localStorage by an earlier visit
EarlierSession == 1

\* the identifier the SessionManager of the page generated when it loaded
PageSession == EarlierSession + 1

\* export default new SessionManager(): the instance App and Sidebar import
sessionManager == 1

\* { 'X-Session-ID': this.sessionId, 'Content-Type': 'application/json' }
JsonHeaders(sessionId) ==
    [XSessionID |-> sessionId, ContentType |-> "application/json"]

\* { 'X-Session-ID': this.sessionId }
MultipartHeaders(sessionId) == [XSessionID |-> sessionId]

\* headers: sessionManager.getHeaders()
SessionHeaders == JsonHeaders(managers[sessionManager])

\* headers: { ...sessionManager.getMultipartHeaders(),
\*            'Content-Type': 'multipart/form-data' }
UploadHeaders ==
    [XSessionID |-> managers[sessionManager],
     ContentType |-> "multipart/form-data"]

\* headers: { 'Content-Type': 'multipart/form-data' }
MultipartOnly == [ContentType |-> "multipart/form-data"]

\* axios.post(url, body) with no config
NoConfig == [ContentType |-> "application/json"]

\* currentThreadId ? (threadView[currentThreadId] || 'upload') : 'upload'
currentMode ==
    IF currentThreadId # NoThread /\ currentThreadId \in DOMAIN threadView
    THEN threadView[currentThreadId]
    ELSE "upload"

\* the upload view and its file input are rendered:
\* currentThreadId && currentMode === 'upload'
InputRendered == currentThreadId # NoThread /\ currentMode = "upload"

\* no file input in the document (fileInputRef.current is null)
NoFileInput == [mounted |-> FALSE, files |-> <<>>]

\* a file input that is never given a list
NeverProjected(fs) == <<>>

\* dt = new DataTransfer(); fs.forEach(f => dt.items.add(f));
\* input.files = dt.files; when that throws, input.value = ''
projectFiles(fs) == IF dataTransfer THEN fs ELSE <<>>

\* the file input after the render that follows a handler: a newly rendered
\* input is empty, and the effect with dependencies [currentThreadId,
\* currentUploads.files] projects the active thread's files into it
syncFileInput(filesReplaced) ==
    /\ dataTransfer' = dataTransfer
    /\ fileInput' =
         IF ~InputRendered' THEN NoFileInput
         ELSE IF currentThreadId' # currentThreadId \/ filesReplaced
              THEN [mounted |-> TRUE,
                    files |-> projectFiles(getCurrentUploadState'.files)]
              ELSE [mounted |-> TRUE, files |-> fileInput.files]

\* a request awaiting its response; id numbers the requests of one kind
Request(kind, id, tid, payload, headers) ==
    [id |-> id, kind |-> kind, tid |-> tid, files |-> payload,
     headers |-> headers]

\* the number of the next user operation
Ordinal == MaxUserOps - budget + 1

\* loadThreads() called by the continuation of request r
LoadThreadsAfter(r) ==
    Request("threads", (IF r.kind = "create" THEN 100 ELSE 200) + r.id,
            NoThread, <<>>, SessionHeaders)

\* the operation that ran last, the thread it addressed and its input
Event(op, tid, arg) == [op |-> op, tid |-> tid, arg |-> arg]

ActiveThreadAtResponse(r) == currentThreadId

\* the thread whose bucket a continuation of request r writes: the
\* currentThreadId its closure captured when the handler was called
ClosureThread(r) == r.tid

\* setCurrentUploadState(updater) as run by the handler of request r
SetUploadState(uploads, tid, bucket) == PutBucket(uploads, tid, bucket)

\* localStorage.getItem returns null for an absent entry
NoSession == 0

NotConstructed == -1

Managers == 1..MaxManagers

\* the module has not been loaded: no entry written by this run, no
\* SessionManager constructed
SessionInit ==
    /\ storage = NoSession
    /\ managers = [i \in Managers |-> NotConstructed]
    /\ generated = 0
    /\ storageAccess = "ok"
    /\ thrown = {}

\* App.tsx has imported sessionManager: the instance exists and holds the
\* identifier it generated and stored
SessionLoaded ==
    /\ storage = PageSession
    /\ managers = [i \in Managers |->
                      IF i = sessionManager THEN PageSession ELSE NotConstructed]
    /\ generated = 1
    /\ storageAccess = "ok"
    /\ thrown = {}

\* the useState initial values of the App with one upload state
ChatInit ==
    /\ files = <<>>
    /\ loading = FALSE
    /\ result = NoResult
    /\ results = <<>>
    /\ error = ""
    /\ chatQuestion = ""
    /\ chatAnswer = ""
    /\ chatLoading = FALSE
    /\ chats = [p \in ChatCalls |-> IdleChat]

Init ==
    /\ SessionLoaded
    /\ fileInput = NoFileInput
    /\ dataTransfer \in BOOLEAN
    /\ currentThreadId = NoThread
    /\ threadUploads = EmptyMap
    /\ threadView = EmptyMap
    /\ threads = {}
    /\ messages = <<>>
    /\ inflight = {Request("threads", 0, NoThread, <<>>, SessionHeaders)}
    /\ serverThreads = {"tA"}
    /\ deletedThreads = {}
    /\ budget = MaxUserOps
    /\ last = Event("mount", NoThread, <<>>)
    /\ ChatInit

(* ------------------------ App.tsx: operations -------------------------- *)

\* loadThreads resolves: setThreads(response.data.threads || [])
LoadThreadsSuccess(r) ==
    /\ r \in inflight /\ r.kind = "threads"
    /\ threads' = serverThreads
    /\ inflight' = inflight \ {r}
    /\ last' = Event("LoadThreadsSuccess", NoThread, <<>>)
    /\ UNCHANGED <<currentThreadId, threadUploads, threadView, messages,
                   serverThreads, budget>>
    /\ UNCHANGED <<deletedThreads, chatVars, sessionVars>>
    /\ syncFileInput(FALSE)

\* the catch blocks of loadThreads, loadThreadMessages, loadThreadDocuments,
\* handleNewChat and handleDeleteThread only log
RequestFailsSilently(r) ==
    /\ r \in inflight /\ r.kind \in {"threads", "messages", "documents", "create", "delete"}
    /\ inflight' = inflight \ {r}
    /\ last' = Event("RequestFailsSilently", r.tid, <<>>)
    /\ UNCHANGED <<currentThreadId, threadUploads, threadView, threads,
                   messages, serverThreads, budget>>
    /\ UNCHANGED <<deletedThreads, chatVars, sessionVars>>
    /\ syncFileInput(FALSE)

\* [threadId]: prev[threadId] || getDefaultUploadState()
KeptOnSelect(uploads, tid) == BucketOf(uploads, tid)

\* the view mode a thread is held in (upload when it has none)
ViewKept(view, tid) == IF tid \in DOMAIN view THEN view[tid] ELSE "upload"

\* setThreadView(prev => ({ ...prev, [threadId]: 'upload' }))
ViewOnSelect(view, tid) == "upload"

handleThreadSelect(threadId) ==
    /\ budget > 0
    /\ Cardinality(inflight) + 2 <= MaxInflight
    /\ threadId \in threads
    /\ currentThreadId' = threadId
    /\ threadUploads' = PutBucket(threadUploads, threadId,
                                  KeptOnSelect(threadUploads, threadId))
    /\ threadView' = PutBucket(threadView, threadId,
                               ViewOnSelect(threadView, threadId))
    /\ inflight' = inflight \cup
            {Request("messages", Ordinal, threadId, <<>>, SessionHeaders),
             Request("documents", Ordinal, threadId, <<>>, SessionHeaders)}
    /\ budget' = budget - 1
    /\ last' = Event("handleThreadSelect", threadId,
                     <<IF threadId \in DOMAIN threadView
                       THEN threadView[threadId] ELSE "none">>)
    /\ UNCHANGED <<threads, messages, serverThreads>>
    /\ UNCHANGED <<deletedThreads, chatVars, sessionVars>>
    /\ syncFileInput(FALSE)

\* Sidebar.handleNewChat up to its await
handleNewChat ==
    /\ budget > 0
    /\ Cardinality(inflight) + 1 <= MaxInflight
    /\ inflight' = inflight \cup
            {Request("create", Ordinal, NoThread, <<>>, SessionHeaders)}
    /\ budget' = budget - 1
    /\ last' = Event("handleNewChat", NoThread, <<>>)
    /\ UNCHANGED <<currentThreadId, threadUploads, threadView, threads,
                   messages, serverThreads>>
    /\ UNCHANGED <<deletedThreads, chatVars, sessionVars>>
    /\ syncFileInput(FALSE)

\* POST /threads answered: onNewThread(newThreadId); onThreadsUpdate()
handleNewThread(r, threadId) ==
    /\ r \in inflight /\ r.kind = "create"
    /\ threadId \in ThreadIds \ (serverThreads \cup deletedThreads)
    /\ serverThreads' = serverThreads \cup {threadId}
    /\ currentThreadId' = threadId
    /\ messages' = <<>>
    /\ threadUploads' = PutBucket(threadUploads, threadId, getDefaultUploadState)
    /\ threadView' = PutBucket(threadView, threadId, "upload")
    /\ inflight' = (inflight \ {r}) \cup {LoadThreadsAfter(r)}
    /\ last' = Event("handleNewThread", threadId, <<>>)
    /\ UNCHANGED <<threads, budget>>
    /\ UNCHANGED <<deletedThreads, chatVars, sessionVars>>
    /\ syncFileInput(TRUE)

handleFileChange(incoming) ==
    /\ budget > 0
    /\ currentThreadId # NoThread
    /\ Len(incoming) > 0
    /\ LET prev == BucketOf(threadUploads, currentThreadId)
           merged == MergeFiles(prev.files, incoming)
       IN  threadUploads' = SetUploadState(threadUploads, currentThreadId,
                               [prev EXCEPT !.files = merged, !.error = ""])
    /\ budget' = budget - 1
    /\ last' = Event("handleFileChange", currentThreadId, incoming)
    /\ UNCHANGED <<currentThreadId, threadView, threads, messages, inflight,
                   serverThreads>>
    /\ UNCHANGED <<deletedThreads, chatVars, sessionVars>>
    /\ syncFileInput(TRUE)

removeFileAt(index) ==
    /\ budget > 0
    /\ currentThreadId # NoThread
    /\ index \in 0..(Len(getCurrentUploadState.files) - 1)
    /\ LET prev == BucketOf(threadUploads, currentThreadId)
       IN  threadUploads' = SetUploadState(threadUploads, currentThreadId,
                               [prev EXCEPT !.files = RemoveAt(prev.files, index)])
    /\ budget' = budget - 1
    /\ last' = Event("removeFileAt", currentThreadId, <<index>>)
    /\ UNCHANGED <<currentThreadId, threadView, threads, messages, inflight,
                   serverThreads>>
    /\ UNCHANGED <<deletedThreads, chatVars, sessionVars>>
    /\ syncFileInput(TRUE)

UploadingKeepsError(prev) == [prev EXCEPT !.loading = TRUE]

\* what handleUpload stores before the request leaves
Uploading(prev) == [prev EXCEPT !.loading = TRUE, !.error = ""]

NeverRejects(selected) == FALSE

\* if (!files.length)
NoFilesSelected(selected) == Len(selected) = 0

\* handleUpload up to its await (or to its early return)
handleUpload ==
    /\ budget > 0
    /\ currentThreadId # NoThread
    /\ LET selected == getCurrentUploadState.files
           prev == BucketOf(threadUploads, currentThreadId)
       IN  IF NoFilesSelected(selected)
           THEN /\ threadUploads' = SetUploadState(threadUploads, currentThreadId,
                                       [prev EXCEPT !.error = ValidationMessage])
                /\ last' = Event("handleUpload", currentThreadId, selected)
                /\ UNCHANGED inflight
           ELSE /\ Cardinality(inflight) + 1 <= MaxInflight
                /\ threadUploads' = SetUploadState(threadUploads, currentThreadId,
                                       Uploading(prev))
                /\ inflight' = inflight \cup
                      {Request("upload", Ordinal, currentThreadId, selected,
                               UploadHeaders)}
                /\ last' = Event("handleUpload", currentThreadId, selected)
    /\ budget' = budget - 1
    /\ UNCHANGED <<currentThreadId, threadView, threads, messages, serverThreads>>
    /\ UNCHANGED <<deletedThreads, chatVars, sessionVars>>
    /\ syncFileInput(FALSE)

FirstOfMerged(list, merged) == FirstOf(merged)

\* const first = list[0] || null
PrimaryOf(list, merged) == FirstOf(list)

\* a success branch that sets result and leaves results as they were
SuccessSetsResultOnly(prev, list) ==
    [prev EXCEPT !.result = FirstOf(list), !.loading = FALSE]

\* the bucket after a successful upload: results upserted by document_id,
\* result = first of this response, then (finally) loading = false
AfterUploadSuccess(prev, list) ==
    [prev EXCEPT !.results = MergeResults(prev.results, list),
                 !.result = PrimaryOf(list, MergeResults(prev.results, list)),
                 !.loading = FALSE]

\* a catch block with no finally after it
FailureWithoutFinally(prev, detail) ==
    [prev EXCEPT !.error = UploadErrorText(detail)]

\* the bucket after a failed upload: error text, then (finally) loading = false
AfterUploadFailure(prev, detail) ==
    [prev EXCEPT !.error = UploadErrorText(detail), !.loading = FALSE]

\* handleUpload after its await, try branch: merge, loadThreads(), finally
UploadSuccess(r, ids) ==
    /\ r \in inflight /\ r.kind = "upload"
    /\ LET tid == ClosureThread(r)
           prev == BucketOf(threadUploads, tid)
       IN  threadUploads' = SetUploadState(threadUploads, tid,
                               AfterUploadSuccess(prev, Delivered(ids, UploadRev(r.id))))
    /\ inflight' = (inflight \ {r}) \cup {LoadThreadsAfter(r)}
    /\ last' = Event("UploadSuccess", r.tid, ids)
    /\ UNCHANGED <<currentThreadId, threadView, threads, messages,
                   serverThreads, budget>>
    /\ UNCHANGED <<deletedThreads, chatVars, sessionVars>>
    /\ syncFileInput(FALSE)

\* handleUpload after its await, catch branch, finally
UploadFailure(r, detail) ==
    /\ r \in inflight /\ r.kind = "upload"
    /\ LET tid == ClosureThread(r)
           prev == BucketOf(threadUploads, tid)
       IN  threadUploads' = SetUploadState(threadUploads, tid,
                               AfterUploadFailure(prev, detail))
    /\ inflight' = inflight \ {r}
    /\ last' = Event("UploadFailure", r.tid, <<detail>>)
    /\ UNCHANGED <<currentThreadId, threadView, threads, messages, serverThreads, budget>>
    /\ UNCHANGED <<deletedThreads, chatVars, sessionVars>>
    /\ syncFileInput(FALSE)

\* the fetched documents merged into the results held before
RefreshedByMerge(prev, mapped) ==
    [prev EXCEPT !.results = MergeResults(prev.results, mapped),
                 !.result = FirstOf(mapped)]

\* { ...(prev[threadId] || getDefaultUploadState()), results: mapped,
\*   result: mapped[0] || null }
Refreshed(prev, mapped) ==
    [prev EXCEPT !.results = mapped, !.result = FirstOf(mapped)]

\* loadThreadDocuments after its await: results and result replaced
LoadDocumentsSuccess(r, ids) ==
    /\ r \in inflight /\ r.kind = "documents"
    /\ LET mapped == Delivered(ids, DocumentsRev(r.id))
           prev == BucketOf(threadUploads, r.tid)
       IN  threadUploads' = PutBucket(threadUploads, r.tid,
                                      Refreshed(prev, mapped))
    /\ inflight' = inflight \ {r}
    /\ last' = Event("LoadDocumentsSuccess", r.tid, ids)
    /\ UNCHANGED <<currentThreadId, threadView, threads, messages, serverThreads, budget>>
    /\ UNCHANGED <<deletedThreads, chatVars, sessionVars>>
    /\ syncFileInput(FALSE)

\* loadThreadMessages after its await: setMessages(response.data.messages || [])
LoadMessagesSuccess(r, list) ==
    /\ r \in inflight /\ r.kind = "messages"
    /\ messages' = list
    /\ inflight' = inflight \ {r}
    /\ last' = Event("LoadMessagesSuccess", r.tid, list)
    /\ UNCHANGED <<currentThreadId, threadUploads, threadView, threads, serverThreads, budget>>
    /\ UNCHANGED <<deletedThreads, chatVars, sessionVars>>
    /\ syncFileInput(FALSE)


\* ChatInterface's onMessageSent: setMessages(prev => [...prev, message])
handleMessageSent(message) ==
    /\ budget > 0
    /\ currentThreadId # NoThread
    /\ messages' = Append(messages, message)
    /\ budget' = budget - 1
    /\ last' = Event("handleMessageSent", currentThreadId, <<message>>)
    /\ UNCHANGED <<currentThreadId, threadUploads, threadView, threads,
                   serverThreads, deletedThreads, inflight>>
    /\ UNCHANGED <<chatVars, sessionVars>>
    /\ syncFileInput(FALSE)

\* ChatInterface's onNewMessage: setMessages(prev => [...prev, message])
handleNewMessage(message) ==
    /\ budget > 0
    /\ currentThreadId # NoThread
    /\ messages' = Append(messages, message)
    /\ budget' = budget - 1
    /\ last' = Event("handleNewMessage", currentThreadId, <<message>>)
    /\ UNCHANGED <<currentThreadId, threadUploads, threadView, threads,
                   serverThreads, deletedThreads, inflight>>
    /\ UNCHANGED <<chatVars, sessionVars>>
    /\ syncFileInput(FALSE)

\* the view buttons: currentThreadId && setThreadView({...prev, [id]: mode})
setThreadView(mode) ==
    /\ budget > 0
    /\ currentThreadId # NoThread
    /\ currentMode # mode
    /\ threadView' = PutBucket(threadView, currentThreadId, mode)
    /\ budget' = budget - 1
    /\ last' = Event("setThreadView", currentThreadId, <<mode>>)
    /\ UNCHANGED <<currentThreadId, threadUploads, threads, messages,
                   serverThreads, deletedThreads, inflight>>
    /\ UNCHANGED <<chatVars, sessionVars>>
    /\ syncFileInput(FALSE)

\* a confirmation dialog that never stops the delete
NeverDeclined(confirmed) == FALSE

\* if (!window.confirm(...)) return
Declined(confirmed) == ~confirmed

\* Sidebar.handleDeleteThread up to its await (or to its early return)
handleDeleteThread(threadId, confirmed) ==
    /\ budget > 0
    /\ threadId \in threads
    /\ IF Declined(confirmed)
       THEN UNCHANGED inflight
       ELSE /\ Cardinality(inflight) + 1 <= MaxInflight
            /\ inflight' = inflight \cup
                   {Request("delete", Ordinal, threadId, <<>>, SessionHeaders)}
    /\ budget' = budget - 1
    /\ last' = Event("handleDeleteThread", threadId, <<confirmed>>)
    /\ UNCHANGED <<currentThreadId, threadUploads, threadView, threads,
                   messages, serverThreads, deletedThreads>>
    /\ UNCHANGED <<chatVars, sessionVars>>
    /\ syncFileInput(FALSE)

\* DELETE /threads/{id} answered: onThreadsUpdate()
DeleteSuccess(r) ==
    /\ r \in inflight /\ r.kind = "delete"
    /\ serverThreads' = serverThreads \ {r.tid}
    /\ deletedThreads' = deletedThreads \cup {r.tid}
    /\ inflight' = (inflight \ {r}) \cup {LoadThreadsAfter(r)}
    /\ last' = Event("DeleteSuccess", r.tid, <<>>)
    /\ UNCHANGED <<currentThreadId, threadUploads, threadView, threads,
                   messages, budget>>
    /\ UNCHANGED <<chatVars, sessionVars>>
    /\ syncFileInput(FALSE)

Next ==
    \/ \E r \in inflight : LoadThreadsSuccess(r)
    \/ \E r \in inflight : RequestFailsSilently(r)
    \/ \E t \in ThreadIds : handleThreadSelect(t)
    \/ handleNewChat
    \/ \E r \in inflight, t \in ThreadIds : handleNewThread(r, t)
    \/ \E sel \in SingleSelections : handleFileChange(sel)
    \/ \E i \in 0..MaxSelect : removeFileAt(i)
    \/ handleUpload
    \/ \E r \in inflight, ids \in UploadBatches : UploadSuccess(r, ids)
    \/ \E r \in inflight, d \in ServerDetails : UploadFailure(r, d)
    \/ \E r \in inflight, ids \in DocumentBatches : LoadDocumentsSuccess(r, ids)
    \/ \E r \in inflight : \E list \in MessageLists(r.tid) :
           LoadMessagesSuccess(r, list)
    \/ \E mode \in ViewModes : setThreadView(mode)
    \/ \E t \in ThreadIds, c \in BOOLEAN : handleDeleteThread(t, c)
    \/ \E r \in inflight : DeleteSuccess(r)
    \/ handleMessageSent(Message(currentThreadId, Ordinal + 1))
    \/ handleNewMessage(Message(currentThreadId, Ordinal + 1))

Spec == Init /\ [][Next]_vars

\* a submit control that stays enabled while an upload is awaited
DisabledWhenEmptyOnly == Len(getCurrentUploadState.files) = 0

\* disabled={currentUploads.loading || !currentUploads.files.length}
uploadDisabled ==
    getCurrentUploadState.loading \/ Len(getCurrentUploadState.files) = 0

\* the Analyze button: shown in upload view, onClick={handleUpload}
clickUpload ==
    /\ currentMode = "upload"
    /\ ~uploadDisabled
    /\ handleUpload

\* the App driven through its controls only
NextUI ==
    \/ \E r \in inflight : LoadThreadsSuccess(r)
    \/ \E r \in inflight : RequestFailsSilently(r)
    \/ \E t \in ThreadIds : handleThreadSelect(t)
    \/ handleNewChat
    \/ \E r \in inflight, t \in ThreadIds : handleNewThread(r, t)
    \/ \E sel \in SingleSelections : handleFileChange(sel)
    \/ \E i \in 0..MaxSelect : removeFileAt(i)
    \/ clickUpload
    \/ \E r \in inflight, ids \in UploadBatches : UploadSuccess(r, ids)
    \/ \E r \in inflight, d \in ServerDetails : UploadFailure(r, d)
    \/ \E r \in inflight, ids \in DocumentBatches : LoadDocumentsSuccess(r, ids)
    \/ \E r \in inflight : \E list \in MessageLists(r.tid) :
           LoadMessagesSuccess(r, list)
    \/ \E mode \in ViewModes : setThreadView(mode)
    \/ \E t \in ThreadIds, c \in BOOLEAN : handleDeleteThread(t, c)
    \/ \E r \in inflight : DeleteSuccess(r)
    \/ handleMessageSent(Message(currentThreadId, Ordinal + 1))
    \/ handleNewMessage(Message(currentThreadId, Ordinal + 1))

SpecUI == Init /\ [][NextUI]_vars

\* file reconciliation alone, with change events of several files
NextFiles ==
    \/ \E r \in inflight : LoadThreadsSuccess(r)
    \/ \E t \in ThreadIds : handleThreadSelect(t)
    \/ \E sel \in Selections : handleFileChange(sel)
    \/ \E i \in 0..MaxSelect : removeFileAt(i)

SpecFiles == Init /\ [][NextFiles]_vars

(* --------------- the App with one upload state: operations ------------- *)

Questions == {"", "What are the top transactions?", "Any anomalies?"}

NoStatus == 0

\* err.response?.status and err.response?.data?.detail of a failed request
Failures ==
    { [status |-> 404, detail |-> "Document not found"],
      [status |-> 500, detail |-> NoDetail],
      [status |-> NoStatus, detail |-> NoDetail] }

Answers == {"answer"}

CombinedText == "Combined insights"

\* 'Chat failed: ' + (err.response?.data?.detail || 'Unknown error')
ChatFailedText(detail) ==
    "Chat failed: " \o
        (IF detail = NoDetail \/ detail = "" THEN "Unknown error" ELSE detail)

\* one request of a handleChat call as it left, the status it met and the
\* document ids an upload returned
ChatRequest(phase, endpoint, document_id, document_ids, question) ==
    [phase |-> phase, endpoint |-> endpoint, document_id |-> document_id,
     document_ids |-> document_ids, question |-> question,
     headers |-> IF endpoint = "/upload-multiple" THEN MultipartOnly
                 ELSE NoConfig,
     settled |-> FALSE, status |-> NoStatus, returned |-> <<>>]

\* the requests awaiting a response, of handleUpload and of handleChat calls
Awaiting ==
    Cardinality(inflight)
        + Cardinality({p \in ChatCalls : chats[p].pc \notin {"idle", "done"}})

\* the log with the response to its last request filled in
Answered(log, status, ids) ==
    [log EXCEPT ![Len(log)] = [@ EXCEPT !.settled = TRUE, !.status = status,
                                       !.returned = ids]]

\* the number of the next user operation
ChatOrdinal == MaxChatOps - budget + 1

setChatQuestion(q) ==
    /\ budget > 0
    /\ q # chatQuestion
    /\ chatQuestion' = q
    /\ budget' = budget - 1
    /\ last' = Event("setChatQuestion", NoThread, <<q>>)
    /\ UNCHANGED <<files, results, result, error, loading, chatAnswer,
                   chatLoading, chats, inflight>>
    /\ UNCHANGED <<threadVars, sessionVars>>

handleFileChangeSingle(incoming) ==
    /\ budget > 0
    /\ Len(incoming) > 0
    /\ files' = MergeFiles(files, incoming)
    /\ error' = ""
    /\ budget' = budget - 1
    /\ last' = Event("handleFileChange", NoThread, incoming)
    /\ UNCHANGED <<results, result, loading, chatQuestion, chatAnswer,
                   chatLoading, chats, inflight>>
    /\ UNCHANGED <<threadVars, sessionVars>>

removeFileAtSingle(index) ==
    /\ budget > 0
    /\ index \in 0..(Len(files) - 1)
    /\ files' = RemoveAt(files, index)
    /\ budget' = budget - 1
    /\ last' = Event("removeFileAt", NoThread, <<index>>)
    /\ UNCHANGED <<results, result, error, loading, chatQuestion, chatAnswer,
                   chatLoading, chats, inflight>>
    /\ UNCHANGED <<threadVars, sessionVars>>

\* handleUpload up to its await (or to its early return)
handleUploadSingle ==
    /\ budget > 0
    /\ IF Len(files) = 0
       THEN /\ error' = ValidationMessage
            /\ UNCHANGED <<loading, inflight>>
       ELSE /\ Awaiting + 1 <= MaxInflight
            /\ loading' = TRUE
            /\ error' = ""
            /\ inflight' = inflight \cup
                   {Request("upload", ChatOrdinal, NoThread, files,
                            MultipartOnly)}
    /\ budget' = budget - 1
    /\ last' = Event("handleUpload", NoThread, files)
    /\ UNCHANGED <<files, results, result, chatQuestion, chatAnswer,
                   chatLoading, chats>>
    /\ UNCHANGED <<threadVars, sessionVars>>

\* handleUpload after its await, try branch: results are replaced
UploadSuccessSingle(r, ids, combined) ==
    /\ r \in inflight /\ r.kind = "upload" /\ r.tid = NoThread
    /\ results' = Delivered(ids, UploadRev(r.id))
    /\ result' = FirstOf(Delivered(ids, UploadRev(r.id)))
    /\ chatAnswer' = IF combined THEN CombinedText ELSE chatAnswer
    /\ loading' = FALSE
    /\ inflight' = inflight \ {r}
    /\ last' = Event("UploadSuccess", NoThread, ids)
    /\ UNCHANGED <<files, error, chatQuestion, chatLoading, chats, budget>>
    /\ UNCHANGED <<threadVars, sessionVars>>

UploadFailureSingle(r, f) ==
    /\ r \in inflight /\ r.kind = "upload" /\ r.tid = NoThread
    /\ error' = UploadErrorText(f.detail)
    /\ loading' = FALSE
    /\ inflight' = inflight \ {r}
    /\ last' = Event("UploadFailure", NoThread, <<f.detail>>)
    /\ UNCHANGED <<files, results, result, chatQuestion, chatAnswer,
                   chatLoading, chats, budget>>
    /\ UNCHANGED <<threadVars, sessionVars>>

\* if (!chatQuestion || ((results.length === 0 && !result) && files.length === 0)) return
NothingToAsk ==
    \/ chatQuestion = ""
    \/ (Len(results) = 0 /\ result = NoResult /\ Len(files) = 0)

\* the single-document route taken only with exactly one result
RoutesWhenExactlyOne(rs, primary) == Len(rs) = 1 /\ primary # NoResult

\* if (results.length <= 1 && result)
RoutesToSingle(rs, primary) == Len(rs) <= 1 /\ primary # NoResult

\* if (ids.length === 0 && files.length > 0)
NeedsUploadFirst(ids, fs) == Len(ids) = 0 /\ Len(fs) > 0

\* recovery attempted on every not-found failure
RecoverableWithoutFiles(status, fs) == status = 404

\* if (err?.response?.status === 404 && files.length > 0)
Recoverable(status, fs) == status = 404 /\ Len(fs) > 0

\* handleChat up to its first await (or to its early return)
handleChat(p) ==
    /\ budget > 0
    /\ chats[p].pc \in {"idle", "done"}
    /\ \A q \in ChatCalls : q < p => chats[q].pc \notin {"idle", "done"}
    /\ LET call == [IdleChat EXCEPT !.question = chatQuestion, !.files = files,
                                    !.results = results, !.result = result]
       IN  IF NothingToAsk
           THEN /\ chats' = [chats EXCEPT ![p] = [call EXCEPT !.pc = "done"]]
                /\ UNCHANGED chatLoading
           ELSE /\ Awaiting + 1 <= MaxInflight
                /\ chatLoading' = TRUE
                /\ chats' = [chats EXCEPT ![p] =
                     IF RoutesToSingle(results, result)
                     THEN [call EXCEPT !.pc = "chat", !.log = <<ChatRequest(
                               "first", "/chat", result.document_id, <<>>,
                               chatQuestion)>>]
                     ELSE IF NeedsUploadFirst(Ids(results), files)
                     THEN [call EXCEPT !.pc = "upload", !.log = <<ChatRequest(
                               "upload", "/upload-multiple", "", <<>>, "")>>]
                     ELSE [call EXCEPT !.pc = "chat", !.log = <<ChatRequest(
                               "first", "/chat-multi", "", Ids(results),
                               chatQuestion)>>]]
    /\ budget' = budget - 1
    /\ last' = Event("handleChat", NoThread, <<p>>)
    /\ UNCHANGED <<files, results, result, error, loading, chatQuestion,
                   chatAnswer, inflight>>
    /\ UNCHANGED <<threadVars, sessionVars>>

\* the upload of the else branch answered: setResults(list), then /chat-multi
FallbackUploadSuccess(p, ids) ==
    /\ chats[p].pc = "upload"
    /\ results' = Delivered(ids, UploadRev(Len(chats[p].log)))
    /\ chats' = [chats EXCEPT ![p] = [@ EXCEPT
            !.pc = "chat",
            !.log = Append(Answered(@, 200, ids), ChatRequest(
                        "first", "/chat-multi", "", ids, chats[p].question))]]
    /\ last' = Event("FallbackUploadSuccess", NoThread, ids)
    /\ UNCHANGED <<files, result, error, loading, chatQuestion, chatAnswer,
                   chatLoading, inflight, budget>>
    /\ UNCHANGED <<threadVars, sessionVars>>

\* /chat or /chat-multi answered: setChatAnswer(answer), finally
ChatSuccess(p, answer) ==
    /\ chats[p].pc = "chat"
    /\ chatAnswer' = answer
    /\ chatLoading' = FALSE
    /\ chats' = [chats EXCEPT ![p] = [@ EXCEPT
            !.pc = "done", !.log = Answered(@, 200, <<>>)]]
    /\ last' = Event("ChatSuccess", NoThread, <<p>>)
    /\ UNCHANGED <<files, results, result, error, loading, chatQuestion,
                   inflight, budget>>
    /\ UNCHANGED <<threadVars, sessionVars>>

\* the outer catch block re-uploads on any not-found failure with local files
RecoversFromEveryFailure(pc, status, fs) ==
    IF Recoverable(status, fs) THEN "reupload" ELSE "done"

\* where a failed request leaves the call: the outer catch block re-uploads
\* on a not-found failure with local files, the inner one only reports
CatchTarget(pc, status, fs) ==
    IF pc \in {"chat", "upload"} /\ Recoverable(status, fs)
    THEN "reupload"
    ELSE "done"

\* a request of handleChat failed: re-upload, or report and finally
ChatFailure(p, f) ==
    /\ chats[p].pc \in {"chat", "upload", "reupload", "retry"}
    /\ IF CatchTarget(chats[p].pc, f.status, chats[p].files) = "reupload"
       THEN /\ chats' = [chats EXCEPT ![p] = [@ EXCEPT
                   !.pc = "reupload",
                   !.log = Append(Answered(@, f.status, <<>>), ChatRequest(
                               "reupload", "/upload-multiple", "", <<>>, ""))]]
            /\ UNCHANGED <<chatAnswer, chatLoading>>
       ELSE /\ chats' = [chats EXCEPT ![p] = [@ EXCEPT
                   !.pc = "done", !.log = Answered(@, f.status, <<>>)]]
            /\ chatAnswer' = ChatFailedText(f.detail)
            /\ chatLoading' = FALSE
    /\ last' = Event("ChatFailure", NoThread, <<p>>)
    /\ UNCHANGED <<files, results, result, error, loading, chatQuestion,
                   inflight, budget>>
    /\ UNCHANGED <<threadVars, sessionVars>>

\* the question input as it reads when the re-upload is answered
QuestionInputAtRetry(c) == chatQuestion

\* question: chatQuestion, the chatQuestion of the render handleChat was
\* called in
RetriedQuestion(c) == c.question

\* a retry that sends the failed chat request again
RetryRepeatsFailedRequest(c, ids) ==
    LET failed == c.log[Len(c.log) - 1]
    IN  ChatRequest("retry", failed.endpoint, failed.document_id,
                    failed.document_ids, RetriedQuestion(c))

\* axios.post('/chat-multi', { document_ids: ids, question: chatQuestion })
RetryRequest(c, ids) ==
    ChatRequest("retry", "/chat-multi", "", ids, RetriedQuestion(c))

\* the re-upload answered: setResults, then the question again on /chat-multi
ReuploadSuccess(p, ids) ==
    /\ chats[p].pc = "reupload"
    /\ results' = Delivered(ids, UploadRev(Len(chats[p].log)))
    /\ chats' = [chats EXCEPT ![p] = [@ EXCEPT
            !.pc = "retry",
            !.log = Append(Answered(@, 200, ids),
                           RetryRequest(chats[p], ids))]]
    /\ last' = Event("ReuploadSuccess", NoThread, ids)
    /\ UNCHANGED <<files, result, error, loading, chatQuestion, chatAnswer,
                   chatLoading, inflight, budget>>
    /\ UNCHANGED <<threadVars, sessionVars>>

\* the retried question answered
RetrySuccess(p, answer) ==
    /\ chats[p].pc = "retry"
    /\ chatAnswer' = answer
    /\ chatLoading' = FALSE
    /\ chats' = [chats EXCEPT ![p] = [@ EXCEPT
            !.pc = "done", !.log = Answered(@, 200, <<>>)]]
    /\ last' = Event("RetrySuccess", NoThread, <<p>>)
    /\ UNCHANGED <<files, results, result, error, loading, chatQuestion,
                   inflight, budget>>
    /\ UNCHANGED <<threadVars, sessionVars>>

\* change events of the App with one upload state
ChatSelections == {s \in SingleSelections : s[1].obj = 1}

InitChat ==
    /\ currentThreadId = NoThread
    /\ threadUploads = EmptyMap
    /\ threadView = EmptyMap
    /\ threads = {}
    /\ messages = <<>>
    /\ serverThreads = {}
    /\ deletedThreads = {}
    /\ inflight = {}
    /\ budget = MaxChatOps
    /\ last = Event("mount", NoThread, <<>>)
    /\ ChatInit
    /\ SessionInit
    /\ fileInput = NoFileInput
    /\ dataTransfer = TRUE

NextChat ==
    \/ \E q \in Questions : setChatQuestion(q)
    \/ \E sel \in ChatSelections : handleFileChangeSingle(sel)
    \/ \E i \in 0..MaxSelect : removeFileAtSingle(i)
    \/ handleUploadSingle
    \/ \E r \in inflight, ids \in UploadBatches, c \in BOOLEAN :
           UploadSuccessSingle(r, ids, c)
    \/ \E r \in inflight, f \in Failures : UploadFailureSingle(r, f)
    \/ \E p \in ChatCalls : handleChat(p)
    \/ \E p \in ChatCalls, ids \in UploadBatches : FallbackUploadSuccess(p, ids)
    \/ \E p \in ChatCalls, a \in Answers : ChatSuccess(p, a)
    \/ \E p \in ChatCalls, f \in Failures : ChatFailure(p, f)
    \/ \E p \in ChatCalls, ids \in UploadBatches : ReuploadSuccess(p, ids)
    \/ \E p \in ChatCalls, a \in Answers : RetrySuccess(p, a)

SpecChat == InitChat /\ [][NextChat]_vars

(* ----------------------- sessionManager.js ----------------------------- *)

\* 'session_' + Date.now() + '_' + Math.random()...: an identifier that was
\* not generated before
generateSessionId == EarlierSession + generated + 1

\* a lookup that never finds the entry
AlwaysAbsent(sessionId) == TRUE

\* if (!sessionId)
EntryAbsent(sessionId) == sessionId = NoSession

\* localStorage works, or is denied (getItem throws), or cannot be written
\* (setItem throws)
StorageAccess == {"ok", "getItemThrows", "setItemThrows"}

\* new SessionManager(): this.sessionId = this.getOrCreateSessionId()
getOrCreateSessionId(i) ==
    /\ managers[i] = NotConstructed
    /\ i \notin thrown
    /\ LET sessionId == storage
       IN  IF storageAccess = "getItemThrows"
           THEN /\ thrown' = thrown \cup {i}
                /\ last' = Event("constructorThrows", NoThread, <<i, "getItem">>)
                /\ UNCHANGED <<storage, generated, managers>>
           ELSE IF EntryAbsent(sessionId) /\ storageAccess = "setItemThrows"
           THEN /\ generated' = generated + 1
                /\ thrown' = thrown \cup {i}
                /\ last' = Event("constructorThrows", NoThread, <<i, "setItem">>)
                /\ UNCHANGED <<storage, managers>>
           ELSE IF EntryAbsent(sessionId)
           THEN /\ storage' = generateSessionId
                /\ generated' = generated + 1
                /\ managers' = [managers EXCEPT ![i] = generateSessionId]
                /\ last' = Event("getOrCreateSessionId", NoThread,
                                 <<i, generateSessionId>>)
                /\ UNCHANGED thrown
           ELSE /\ managers' = [managers EXCEPT ![i] = sessionId]
                /\ last' = Event("getOrCreateSessionId", NoThread,
                                 <<i, sessionId>>)
                /\ UNCHANGED <<storage, generated, thrown>>
    /\ UNCHANGED <<threadVars, chatVars, inflight, budget, storageAccess>>

getSessionId(i) ==
    /\ managers[i] # NotConstructed
    /\ last' = Event("getSessionId", NoThread, <<i, managers[i]>>)
    /\ UNCHANGED <<threadVars, chatVars, sessionVars, inflight, budget>>

getHeaders(i) ==
    /\ managers[i] # NotConstructed
    /\ last' = Event("getHeaders", NoThread, <<i, JsonHeaders(managers[i])>>)
    /\ UNCHANGED <<threadVars, chatVars, sessionVars, inflight, budget>>

getMultipartHeaders(i) ==
    /\ managers[i] # NotConstructed
    /\ last' = Event("getMultipartHeaders", NoThread,
                     <<i, MultipartHeaders(managers[i])>>)
    /\ UNCHANGED <<threadVars, chatVars, sessionVars, inflight, budget>>

\* a first visit, or a visit that finds the entry of an earlier one
InitSession ==
    /\ currentThreadId = NoThread
    /\ threadUploads = EmptyMap
    /\ threadView = EmptyMap
    /\ threads = {}
    /\ messages = <<>>
    /\ serverThreads = {}
    /\ deletedThreads = {}
    /\ inflight = {}
    /\ budget = 0
    /\ last = Event("mount", NoThread, <<>>)
    /\ ChatInit
    /\ storage \in {NoSession, EarlierSession}
    /\ managers = [i \in Managers |-> NotConstructed]
    /\ generated = 0
    /\ storageAccess \in StorageAccess
    /\ thrown = {}
    /\ fileInput = NoFileInput
    /\ dataTransfer = TRUE

NextSession ==
    \/ \E i \in Managers : getOrCreateSessionId(i)
    \/ \E i \in Managers : getSessionId(i)
    \/ \E i \in Managers : getHeaders(i)
    \/ \E i \in Managers : getMultipartHeaders(i)

SpecSession == InitSession /\ [][NextSession]_vars

(* ------------------- App.tsx: upload state properties ------------------ *)

\* the upload request r receives its response in this step
UploadResolves(r) == r \in inflight /\ r.kind = "upload" /\ r \notin inflight'

IdSet(rs) == {rs[i].document_id : i \in 1..Len(rs)}

\* C1: an upload submitted on thread A that resolves (success or failure)
\* leaves every other thread's bucket as it was, also when another thread is
\* active by then, and writes results, error and loading = false to A's bucket.
ThreadIsolationOfUploads ==
    [][\A r \in inflight : UploadResolves(r) =>
        /\ \A t \in ThreadIds \ {r.tid} :
              /\ (t \in DOMAIN threadUploads') = (t \in DOMAIN threadUploads)
              /\ BucketOf(threadUploads', t) = BucketOf(threadUploads, t)
        /\ r.tid \in DOMAIN threadUploads'
        /\ LET before == BucketOf(threadUploads, r.tid)
               after == threadUploads'[r.tid]
           IN  /\ after.loading = FALSE
               /\ after.files = before.files
               /\ \/ /\ last'.op = "UploadSuccess"
                     /\ after.error = before.error
                     /\ IdSet(after.results) =
                            IdSet(before.results) \cup Range(last'.arg)
                  \/ /\ last'.op = "UploadFailure"
                     /\ after.error # ""
                     /\ after.results = before.results
                     /\ after.result = before.result
      ]_vars

\* an upload response has just been applied while another thread is active
UploadResolvedWhileOtherThreadActive ==
    /\ last.op = "UploadSuccess"
    /\ currentThreadId \notin {NoThread, last.tid}
    /\ last.arg # <<>>
    /\ threadUploads[last.tid].results # <<>>

\* C2: no bucket ever holds two results with the same document_id; an upload
\* success replaces the entries whose ids it repeats, in place, with the new
\* values, keeps every other entry, and appends the ids that are new.
UpsertInvariant ==
    /\ [](\A t \in DOMAIN threadUploads :
            LET rs == threadUploads[t].results
            IN  \A i, j \in 1..Len(rs) :
                    rs[i].document_id = rs[j].document_id => i = j)
    /\ [][\A r \in inflight : (UploadResolves(r) /\ last'.op = "UploadSuccess") =>
            LET old == BucketOf(threadUploads, r.tid).results
                new == threadUploads'[r.tid].results
                ids == last'.arg
            IN  /\ Len(new) >= Len(old)
                /\ \A i \in 1..Len(old) :
                      /\ new[i].document_id = old[i].document_id
                      /\ old[i].document_id \notin Range(ids) => new[i] = old[i]
                      /\ old[i].document_id \in Range(ids) =>
                            new[i].rev = UploadRev(r.id)
                /\ \A i \in (Len(old) + 1)..Len(new) :
                      new[i].rev = UploadRev(r.id) /\ new[i].document_id \in Range(ids)
                /\ IdSet(new) = IdSet(old) \cup Range(ids)
       ]_vars

\* a later upload replaced the first entry while the second one is still the
\* earlier upload's
UpsertReplacedInPlace ==
    /\ last.op = "UploadSuccess"
    /\ LET rs == threadUploads[last.tid].results
       IN  /\ Len(rs) = 2
           /\ rs[2].rev < DocumentsRev(0)
           /\ rs[1].rev > rs[2].rev
           /\ rs[1].rev < DocumentsRev(0)

IdentityKey(f) == <<f.name, f.size, f.lastModified>>

\* the last file of a selection with each key is the one that stays
Surviving(sel) ==
    {sel[k] : k \in {k \in 1..Len(sel) :
        \A l \in (k + 1)..Len(sel) : IdentityKey(sel[l]) # IdentityKey(sel[k])}}

\* C5: a thread's files never hold two files with the same (name, size,
\* lastModified); a file selected again replaces the entry with its key where
\* it stands, and merging a selection a second time changes nothing.
FileSetDedupe ==
    \A t \in DOMAIN threadUploads :
        LET fs == threadUploads[t].files
        IN  /\ \A i, j \in 1..Len(fs) :
                  IdentityKey(fs[i]) = IdentityKey(fs[j]) => i = j
            /\ (last.op = "handleFileChange" /\ last.tid = t) =>
                  Surviving(last.arg) \subseteq Range(fs)
            /\ \A sel \in Selections :
                  LET once == MergeFiles(fs, sel)
                  IN  /\ MergeFiles(once, sel) = once
                      /\ Surviving(sel) \subseteq Range(once)
                      /\ Cardinality({IdentityKey(once[i]) : i \in 1..Len(once)})
                            = Len(once)
                      /\ \A i \in 1..Len(fs) :
                            IdentityKey(once[i]) = IdentityKey(fs[i])

\* a file selected again took the place of the earlier File object, ahead of
\* a file that was selected in between
ReselectionReplaced ==
    /\ last.op = "handleFileChange"
    /\ Len(last.arg) = 1
    /\ LET fs == threadUploads[last.tid].files
       IN  /\ Len(fs) = 2
           /\ fs[1] = last.arg[1]
           /\ fs[1].obj = 2

\* C6: a transcript fetch issued for one thread, answered while another
\* thread is active, leaves the transcript shown for the active thread alone.
TranscriptFetchKeyedByThread ==
    [][\A r \in inflight :
          (r.kind = "messages" /\ r \notin inflight' /\ r.tid # currentThreadId)
              => messages' = messages
      ]_vars

\* handleUpload ran in this step
Submits == last'.op = "handleUpload" /\ budget' = budget - 1

\* C7: submit with no file selected issues no request, sets the thread's
\* error to the validation message and leaves loading, results, result alone.
EmptySubmitFailsFast ==
    [][(Submits /\ Len(getCurrentUploadState.files) = 0) =>
          LET before == BucketOf(threadUploads, currentThreadId)
              after == BucketOf(threadUploads', currentThreadId)
          IN  /\ inflight' = inflight
              /\ after.error = ValidationMessage
              /\ after.loading = before.loading
              /\ after.results = before.results
              /\ after.result = before.result
              /\ after.files = before.files
      ]_vars

\* an empty submit was rejected on a thread that holds results
EmptySubmitRejected ==
    /\ last.op = "handleUpload"
    /\ last.arg = <<>>
    /\ threadUploads[last.tid].error = ValidationMessage
    /\ threadUploads[last.tid].results # <<>>

\* C8: a failed upload sets error to the server's detail if it sent one and
\* to 'Upload failed' otherwise, keeps results and result, and ends with
\* loading = false.
UploadFailureSetsError ==
    [][\A r \in inflight : (UploadResolves(r) /\ last'.op = "UploadFailure") =>
          LET before == BucketOf(threadUploads, r.tid)
              after == BucketOf(threadUploads', r.tid)
              detail == last'.arg[1]
          IN  /\ after.error = (IF detail \in {NoDetail, ""}
                                THEN "Upload failed" ELSE detail)
              /\ after.results = before.results
              /\ after.result = before.result
              /\ after.loading = FALSE
      ]_vars

\* an upload failed with a server detail on a thread that holds results
UploadFailedWithDetail ==
    /\ last.op = "UploadFailure"
    /\ last.arg = <<"Unsupported file type">>
    /\ threadUploads[last.tid].error = "Unsupported file type"
    /\ threadUploads[last.tid].results # <<>>
    /\ ~threadUploads[last.tid].loading

\* C9: after an upload success result is the first entry of that response,
\* not of the merged results; an empty response sets result to none and keeps
\* the accumulated results.
PrimaryIsFirstOfBatch ==
    [][\A r \in inflight : (UploadResolves(r) /\ last'.op = "UploadSuccess") =>
          LET before == BucketOf(threadUploads, r.tid)
              after == BucketOf(threadUploads', r.tid)
              ids == last'.arg
          IN  /\ ids # <<>> =>
                    after.result = [document_id |-> ids[1], rev |-> UploadRev(r.id)]
              /\ ids = <<>> =>
                    after.result = NoResult /\ after.results = before.results
      ]_vars

\* the primary set by an upload is not the first of the merged results
PrimaryDiffersFromMergedFirst ==
    /\ last.op = "UploadSuccess"
    /\ last.arg # <<>>
    /\ LET b == threadUploads[last.tid]
       IN  /\ b.result.document_id = last.arg[1]
           /\ b.results[1].document_id # b.result.document_id

\* C10: submit with files selected sets loading and clears error before the
\* request leaves, the request carries the thread active at submit time, and
\* submit is accepted whatever the previous outcome left in the bucket.
SubmitStartsUpload ==
    /\ [][(Submits /\ Len(getCurrentUploadState.files) > 0) =>
            LET before == BucketOf(threadUploads, currentThreadId)
                after == BucketOf(threadUploads', currentThreadId)
            IN  /\ after.loading = TRUE
                /\ after.error = ""
                /\ after.results = before.results
                /\ after.result = before.result
                /\ \E q \in inflight' \ inflight :
                      /\ inflight' = inflight \cup {q}
                      /\ q.kind = "upload"
                      /\ q.tid = currentThreadId
                      /\ q.files = before.files
         ]_vars
    /\ []((currentThreadId # NoThread /\ budget > 0
             /\ Cardinality(inflight) < MaxInflight) => ENABLED handleUpload)

\* a submit from the success outcome: an earlier upload of this thread has
\* delivered results and the new one is the only upload in flight
ResubmittedAfterSuccess ==
    /\ last.op = "handleUpload"
    /\ last.arg # <<>>
    /\ threadUploads[last.tid].loading
    /\ threadUploads[last.tid].error = ""
    /\ \E i \in 1..Len(threadUploads[last.tid].results) :
          threadUploads[last.tid].results[i].rev < DocumentsRev(0)
    /\ Cardinality({q \in inflight : q.kind = "upload"}) = 1

(* ------------------- App.tsx: loadThreadDocuments ---------------------- *)

\* a documents fetch of thread r.tid is answered in this step
DocumentsResolve(r) ==
    /\ r \in inflight /\ r.kind = "documents" /\ r \notin inflight'
    /\ last'.tid = r.tid

\* C11: a successful documents fetch for a thread makes the thread's results
\* exactly the fetched list (nothing of the previous results survives) and
\* its primary the first fetched document or none, and leaves its files,
\* loading and error alone; a failed fetch leaves every bucket as it was.
LoadExistingIsAuthoritative ==
    [][\A r \in inflight :
          LET before == BucketOf(threadUploads, r.tid)
              after == BucketOf(threadUploads', r.tid)
          IN  /\ (DocumentsResolve(r) /\ last'.op = "LoadDocumentsSuccess") =>
                    /\ Ids(after.results) = last'.arg
                    /\ \A i \in 1..Len(after.results) :
                           after.results[i].rev = DocumentsRev(r.id)
                    /\ after.result =
                           (IF Len(last'.arg) = 0 THEN NoResult
                            ELSE [document_id |-> last'.arg[1],
                                  rev |-> DocumentsRev(r.id)])
                    /\ after.files = before.files
                    /\ after.loading = before.loading
                    /\ after.error = before.error
              /\ (DocumentsResolve(r) /\ last'.op = "RequestFailsSilently") =>
                    threadUploads' = threadUploads
      ]_vars

\* a documents fetch has replaced the results of a thread that holds selected
\* files and an error message
RefreshedBucketKeepsFilesAndError ==
    /\ last.op = "LoadDocumentsSuccess"
    /\ LET b == BucketOf(threadUploads, last.tid)
       IN  /\ Len(b.files) > 0
           /\ b.error # ""
           /\ Len(b.results) > 0

(* ------------------- Sidebar: delete, App: select ---------------------- *)

\* what the client holds for its threads
LocalThreadState ==
    <<currentThreadId, threadUploads, threadView, threads, messages>>

\* C16: a delete the user does not confirm sends no request and changes
\* nothing; a DELETE request that fails leaves the cached thread list and
\* the per-thread state as they were; a thread leaves the cached list only
\* after the server has confirmed its delete.
DeleteIsNotOptimistic ==
    [][/\ (/\ last'.op = "handleDeleteThread"
           /\ budget' = budget - 1
           /\ last'.arg = <<FALSE>>) =>
              /\ inflight' = inflight
              /\ LocalThreadState' = LocalThreadState
              /\ serverThreads' = serverThreads
       /\ \A r \in inflight :
              (/\ r.kind = "delete"
               /\ r \notin inflight'
               /\ last'.op = "RequestFailsSilently") =>
                  /\ LocalThreadState' = LocalThreadState
                  /\ serverThreads' = serverThreads
       /\ \A t \in threads : t \notin threads' => t \in deletedThreads
      ]_vars

\* a thread has left the cached list with the reload that followed its
\* confirmed delete
ThreadLeftListAfterConfirmedDelete ==
    /\ last.op = "LoadThreadsSuccess"
    /\ "tA" \in deletedThreads
    /\ "tA" \notin threads

\* the threads whose messages the transcript holds
TranscriptThreads == {messages[i].thread : i \in 1..Len(messages)}

\* C17: once a thread has been deleted successfully the client holds no
\* upload state, no view mode and no transcript for it.
DeletionCascadesToLocalState ==
    \A t \in deletedThreads :
        /\ t \notin DOMAIN threadUploads
        /\ t \notin DOMAIN threadView
        /\ t \notin TranscriptThreads

\* C18: the active thread is none or a thread that has not been deleted; in
\* particular it is none after the active thread was deleted successfully.
ActiveThreadNotDeleted ==
    currentThreadId = NoThread \/ currentThreadId \notin deletedThreads

\* C19: selecting a thread makes it the active thread, puts its view mode
\* to upload whatever it was, and issues a documents fetch and a transcript
\* fetch for that thread.
SelectShowsUploadAndFetches ==
    [][(last'.op = "handleThreadSelect" /\ budget' = budget - 1) =>
          /\ currentThreadId' = last'.tid
          /\ last'.tid \in DOMAIN threadView'
          /\ threadView'[last'.tid] = "upload"
          /\ \A kind \in {"documents", "messages"} :
                 \E r \in inflight' \ inflight :
                     r.kind = kind /\ r.tid = last'.tid
      ]_vars

\* a thread shown in chat mode was selected again and is shown in upload mode
ReselectedWhileInChatMode ==
    /\ last.op = "handleThreadSelect"
    /\ last.arg = <<"chat">>
    /\ currentThreadId = last.tid
    /\ threadView[last.tid] = "upload"

(* ------------------- sessionManager.js: identity ----------------------- *)

\* the session id a call of the last step yielded
YieldedId ==
    IF last.op \in {"getOrCreateSessionId", "getSessionId"} THEN last.arg[2]
    ELSE last.arg[2].XSessionID

\* C20: an identifier is generated and stored only when the storage entry
\* is absent; while the entry exists, every constructed SessionManager holds
\* the stored identifier and every getOrCreateSessionId, getSessionId,
\* getHeaders and getMultipartHeaders call yields it.
SessionIdentityIsStable ==
    /\ [][storage' # storage =>
              /\ storage = NoSession
              /\ storage' # NoSession
              /\ generated' = generated + 1
         ]_vars
    /\ [][generated' # generated => storage = NoSession]_vars
    /\ [](storage # NoSession =>
              /\ \A i \in Managers :
                     managers[i] # NotConstructed => managers[i] = storage
              /\ last.op \in {"getOrCreateSessionId", "getSessionId",
                              "getHeaders", "getMultipartHeaders"} =>
                     YieldedId = storage)

\* a second SessionManager, constructed after the first one generated and
\* stored the identifier, hands out that identifier in its headers
SecondManagerReusesStoredId ==
    /\ generated = 1
    /\ last.op = "getHeaders"
    /\ last.arg[1] = 2
    /\ last.arg[2].XSessionID = storage
    /\ managers[1] = storage

\* C22: when reading or writing the storage entry fails, constructing the
\* SessionManager still succeeds: no construction ends with an exception
\* instead of a session identifier.
UnavailableStorageIsNotAnError ==
    \A i \in Managers : i \notin thrown

(* ------------------- App.tsx: the loading flag ------------------------- *)

\* the loading flag of a thread's upload state
LoadingOf(uploads, t) == BucketOf(uploads, t).loading

\* the uploads issued for thread t that are answered in this step
UploadsResolving(t) ==
    {r \in inflight \ inflight' : r.kind = "upload" /\ r.tid = t}

\* C23: a thread's loading flag, once set by a submit, becomes false only
\* in a step in which the upload of that thread is answered; every answered
\* upload leaves it false; and while the upload is unanswered the flag stays
\* true, whatever else happens (thread switches included).
LoadingClearedOnlyByResolution ==
    /\ [][\A t \in ThreadIds :
            /\ (LoadingOf(threadUploads, t) /\ ~LoadingOf(threadUploads', t))
                   => UploadsResolving(t) # {}
            /\ UploadsResolving(t) # {} => ~LoadingOf(threadUploads', t)
         ]_vars
    /\ [](\A r \in inflight :
            r.kind = "upload" => LoadingOf(threadUploads, r.tid))

\* an upload is still unanswered after the user switched to another thread,
\* and its thread is still loading
UploadPendingAcrossThreadSwitch ==
    \E r \in inflight :
        /\ r.kind = "upload"
        /\ currentThreadId # r.tid
        /\ LoadingOf(threadUploads, r.tid)
        /\ ~LoadingOf(threadUploads, currentThreadId)

\* C26: driven through the submit control, every thread has at most one
\* upload awaiting its response, and a thread's loading flag is true exactly
\* when an upload issued for that thread is unresolved.
LoadingIffUploadInFlight ==
    \A t \in ThreadIds :
        LET pending == {r \in inflight : r.kind = "upload" /\ r.tid = t}
        IN  /\ Cardinality(pending) <= 1
            /\ LoadingOf(threadUploads, t) <=> pending # {}

\* an upload of the active thread, which already holds results, is awaited
\* and the thread's loading flag is true
SecondUploadAfterFirstResolved ==
    /\ \E r \in inflight : r.kind = "upload" /\ r.tid = currentThreadId
    /\ LoadingOf(threadUploads, currentThreadId)
    /\ Len(BucketOf(threadUploads, currentThreadId).results) > 0

\* the entries of a results list that an upload response put there
FromUpload(e) == e.rev < DocumentsRev(0)

\* C27: once an upload on a thread has succeeded, the ids it delivered stay
\* in that thread's results in every later step until the thread is deleted,
\* whatever loadExisting responses arrive; the server keeps uploaded
\* documents, so only a response to a documents request issued before the
\* upload was submitted may lack them.
UploadedIdsPersist ==
    [][\A t \in ThreadIds :
          t \notin deletedThreads' =>
            \A i \in 1..Len(BucketOf(threadUploads, t).results) :
              LET e == BucketOf(threadUploads, t).results[i]
              IN  FromUpload(e) =>
                    \/ e.document_id \in
                         Range(Ids(BucketOf(threadUploads', t).results))
                    \/ \E r \in inflight \ inflight' :
                          /\ r.kind = "documents"
                          /\ r.tid = t
                          /\ r.id > e.rev
      ]_vars

\* C28: with two uploads of one thread awaiting their responses, in
\* whichever order the responses arrive, each response is merged into what the
\* other left: the results hold the union of the delivered ids, each once,
\* and after the response that arrives last result is that response's first
\* entry.
NoLostUpdateBetweenUploads ==
    [][\A r \in inflight : (UploadResolves(r) /\ last'.op = "UploadSuccess") =>
          LET old == BucketOf(threadUploads, r.tid).results
              after == BucketOf(threadUploads', r.tid)
              ids == last'.arg
              awaited == {q \in inflight' : q.kind = "upload" /\ q.tid = r.tid}
          IN  /\ IdSet(after.results) = IdSet(old) \cup Range(ids)
              /\ Len(after.results) = Cardinality(IdSet(after.results))
              /\ (awaited = {} /\ ids # <<>>) =>
                    after.result = [document_id |-> ids[1],
                                    rev |-> UploadRev(r.id)]
      ]_vars

\* both uploads of a thread are answered, the one submitted first was
\* answered last: result is its first entry and the results still hold an
\* entry of the upload submitted after it
UploadsAnsweredOutOfOrder ==
    /\ last.op = "UploadSuccess"
    /\ \A q \in inflight : q.kind # "upload"
    /\ LET b == BucketOf(threadUploads, last.tid)
       IN  /\ b.result # NoResult
           /\ FromUpload(b.result)
           /\ \E i \in 1..Len(b.results) :
                 /\ FromUpload(b.results[i])
                 /\ b.results[i].rev > b.result.rev

\* C29: in every state and every thread's upload state, a result that is
\* set has its document_id among the entries of results.
PrimaryIsAmongResults ==
    \A t \in DOMAIN threadUploads :
        LET b == threadUploads[t]
        IN  b.result # NoResult =>
                \E i \in 1..Len(b.results) :
                    b.results[i].document_id = b.result.document_id

\* after an upload the primary is an entry that is not the first of results
PrimarySetAndNotFirstOfResults ==
    /\ last.op = "UploadSuccess"
    /\ LET b == BucketOf(threadUploads, last.tid)
       IN  /\ b.result # NoResult
           /\ Len(b.results) = 2
           /\ b.results[2] = b.result

(* ------------------- App.tsx: the transcript --------------------------- *)

\* s is an initial part of t
IsPrefix(s, t) ==
    /\ Len(s) <= Len(t)
    /\ \A i \in 1..Len(s) : s[i] = t[i]

\* C24: while a thread stays the active thread and is not deleted, every
\* step leaves the messages already in its transcript in place and in order;
\* a message that is added goes to the end.
TranscriptIsAppendOnly ==
    [][(/\ currentThreadId # NoThread
        /\ currentThreadId' = currentThreadId
        /\ currentThreadId \notin deletedThreads') =>
            IsPrefix(messages, messages')
      ]_vars

(* ------------------- App.tsx: the native file input -------------------- *)

\* C25: after every file selection, file removal and change of the active
\* thread, the list of the file input equals the active thread's files, or
\* the input is empty when no DataTransfer can be constructed; and in every
\* state an input that holds a list holds the active thread's files.
FileInputMirrorsActiveThread ==
    /\ [](fileInput.mounted /\ fileInput.files # <<>> =>
              fileInput.files = getCurrentUploadState.files)
    /\ [][(/\ \/ last'.op \in {"handleFileChange", "removeFileAt"}
              \/ currentThreadId' # currentThreadId
           /\ fileInput'.mounted) =>
              fileInput'.files = IF dataTransfer
                                 THEN getCurrentUploadState'.files
                                 ELSE <<>>
         ]_vars

\* a second selection was merged into the thread's files and the input holds
\* the merged list, not the one file of the change event
InputHoldsMergedSelection ==
    /\ last.op = "handleFileChange"
    /\ Len(last.arg) = 1
    /\ dataTransfer
    /\ fileInput.mounted
    /\ Len(fileInput.files) = 2
    /\ fileInput.files = getCurrentUploadState.files

(* ------------------- session header on requests ----------------------- *)

\* the headers of every request the client has issued and not yet seen
\* answered, and of every request of a handleChat call
IssuedHeaders ==
    {r.headers : r \in inflight}
        \cup UNION {{chats[p].log[i].headers : i \in 1..Len(chats[p].log)} :
                    p \in ChatCalls}

\* C21: every request the client issues carries the X-Session-ID header.
EveryRequestCarriesSessionId ==
    \A h \in IssuedHeaders : "XSessionID" \in DOMAIN h

(* ------------------- handleChat: recovery and routing ------------------ *)

\* the requests of a log made in one phase
InPhase(log, phase) == {i \in 1..Len(log) : log[i].phase = phase}

\* a chat request of the try block that met 'not found' while the call
\* held local files
NotFoundWithFiles(c) ==
    \E i \in InPhase(c.log, "first") :
        c.log[i].status = 404 /\ Len(c.files) > 0

\* C3: for one question, a chat request that fails with 404 while local
\* files are present is followed by exactly one re-upload, the re-upload
\* when it succeeds by exactly one retried chat request, and a failed
\* re-upload or a failed retry by no further request: never more than one
\* re-upload and one retry per question.
RecoveryBound ==
    \A p \in ChatCalls :
        LET c == chats[p]
            n == Len(c.log)
        IN  /\ Cardinality(InPhase(c.log, "reupload")) <= 1
            /\ Cardinality(InPhase(c.log, "retry")) <= 1
            /\ NotFoundWithFiles(c) =>
                   Cardinality(InPhase(c.log, "reupload")) = 1
            /\ \A i \in InPhase(c.log, "reupload") :
                   /\ c.log[i].endpoint = "/upload-multiple"
                   /\ ~c.log[i].settled => i = n
                   /\ c.log[i].status = 200 =>
                          /\ i + 1 = n
                          /\ c.log[n].phase = "retry"
                          /\ c.log[n].endpoint = "/chat-multi"
                          /\ c.log[n].document_ids = c.log[i].returned
                   /\ (c.log[i].settled /\ c.log[i].status # 200) =>
                          i = n /\ c.pc = "done"
            /\ \A i \in InPhase(c.log, "retry") :
                   /\ i = n
                   /\ c.log[i].settled => c.pc = "done"

\* a question whose chat request met 404 with files present was re-uploaded
\* once and retried once, and the retry failed with 404 as well
RetryFailedAfterRecovery ==
    \E p \in ChatCalls :
        LET c == chats[p]
        IN  /\ c.pc = "done"
            /\ Len(c.log) = 3
            /\ c.log[1].phase = "first" /\ c.log[1].status = 404
            /\ c.log[2].phase = "reupload" /\ c.log[2].status = 200
            /\ c.log[3].phase = "retry" /\ c.log[3].status = 404
            /\ Len(c.files) > 0

\* a request of the try block failed outside the recovery precondition:
\* with a status other than 404, or with 404 while the call held no file
FailedOutsidePrecondition(c, i) ==
    /\ c.log[i].phase \in {"first", "upload"}
    /\ c.log[i].settled
    /\ c.log[i].status # 200
    /\ c.log[i].status # 404 \/ Len(c.files) = 0

\* the text shown for a failure with the given status
SurfacedText(status) ==
    IF status = 404 THEN "Chat failed: Document not found"
    ELSE "Chat failed: Unknown error"

\* C12: a chat request that fails with a status other than 404, or with 404
\* while no local file is selected, is the last request of its question (no
\* re-upload, no retry), and in the step in which it fails the failure text
\* becomes the answer shown and chatLoading becomes false.
NoRecoveryOutsidePrecondition ==
    /\ [](\A p \in ChatCalls :
            \A i \in 1..Len(chats[p].log) :
                FailedOutsidePrecondition(chats[p], i) =>
                    /\ i = Len(chats[p].log)
                    /\ chats[p].pc = "done"
                    /\ InPhase(chats[p].log, "reupload") = {}
                    /\ InPhase(chats[p].log, "retry") = {})
    /\ [][\A p \in ChatCalls :
            LET n == Len(chats'[p].log)
            IN  (/\ chats[p].pc \in {"chat", "upload"}
                 /\ chats'[p].pc = "done"
                 /\ FailedOutsidePrecondition(chats'[p], n)) =>
                    /\ chatAnswer' = SurfacedText(chats'[p].log[n].status)
                    /\ chatLoading' = FALSE
       ]_vars

\* a chat request met 404 after the files had been removed, and the failure
\* is the answer shown
NotFoundWithoutFilesSurfaced ==
    \E p \in ChatCalls :
        LET c == chats[p]
        IN  /\ c.pc = "done"
            /\ Len(c.log) = 1
            /\ c.log[1].phase = "first"
            /\ c.log[1].settled /\ c.log[1].status = 404
            /\ Len(c.files) = 0
            /\ chatAnswer = "Chat failed: Document not found"
            /\ ~chatLoading

\* C13: the retried chat request of a question carries the question text
\* of the original attempt, whatever the question input reads by then.
RetryKeepsQuestion ==
    \A p \in ChatCalls :
        \A i \in InPhase(chats[p].log, "retry") :
            /\ chats[p].log[i].question = chats[p].question
            /\ \A j \in InPhase(chats[p].log, "first") :
                   chats[p].log[i].question = chats[p].log[j].question

\* a retry went out after the question input was edited while the first
\* chat request or the re-upload was in flight
RetriedAfterQuestionEdited ==
    \E p \in ChatCalls :
        \E i \in InPhase(chats[p].log, "retry") :
            /\ InPhase(chats[p].log, "first") # {}
            /\ chatQuestion # chats[p].question
            /\ chats[p].log[i].question = chats[p].question

\* the retried chat request of call p is answered with success in this step
RecoverySucceeds(p) ==
    /\ chats[p].pc = "retry"
    /\ chats'[p].pc = "done"
    /\ chats'[p].log[Len(chats'[p].log)].status = 200

\* the ids the re-upload of a call returned
ReuploadedIds(c) ==
    UNION {Range(c.log[i].returned) : i \in InPhase(c.log, "reupload")}

\* C14: when a recovery succeeds, results and the primary result hold only
\* document ids that the re-upload returned.
RecoveryUpdatesLocalState ==
    [][\A p \in ChatCalls :
          RecoverySucceeds(p) =>
              /\ \A i \in 1..Len(results') :
                     results'[i].document_id \in ReuploadedIds(chats'[p])
              /\ result' # NoResult =>
                     result'.document_id \in ReuploadedIds(chats'[p])
      ]_vars

\* a question asked while no result was known and files were selected
AskedWithFilesOnly(c) ==
    /\ c.pc # "idle"
    /\ c.question # ""
    /\ Len(c.results) = 0
    /\ Len(c.files) > 0

\* C15: a question asked with no known document id and with local files
\* selected starts with an upload request; its chat request goes out only
\* after that upload has succeeded, to /chat-multi, with exactly the ids the
\* upload returned.
UploadPrecedesChat ==
    \A p \in ChatCalls :
        LET c == chats[p]
        IN  AskedWithFilesOnly(c) =>
                /\ Len(c.log) >= 1
                /\ c.log[1].phase = "upload"
                /\ \A i \in InPhase(c.log, "first") :
                       /\ i = 2
                       /\ c.log[1].settled /\ c.log[1].status = 200
                       /\ c.log[i].endpoint = "/chat-multi"
                       /\ c.log[i].document_ids = c.log[1].returned

\* the first chat request of a call, after its fallback upload if it made one
FirstChat(c) ==
    IF Len(c.log) >= 1 /\ c.log[1].phase = "first" THEN <<c.log[1]>>
    ELSE IF Len(c.log) >= 2 /\ c.log[2].phase = "first" THEN <<c.log[2]>>
    ELSE <<>>

\* the call made a fallback upload that has not been followed by a chat
\* request (it is pending, or it failed)
FallbackOnly(c) ==
    /\ Len(c.log) >= 1
    /\ c.log[1].phase = "upload"
    /\ c.log[1].status # 200

GoesToChat(c, id) ==
    /\ FirstChat(c) # <<>>
    /\ FirstChat(c)[1].endpoint = "/chat"
    /\ FirstChat(c)[1].document_id = id
    /\ FirstChat(c)[1].question = c.question

GoesToChatMulti(c, ids) ==
    /\ FirstChat(c) # <<>>
    /\ FirstChat(c)[1].endpoint = "/chat-multi"
    /\ FirstChat(c)[1].document_ids = ids
    /\ FirstChat(c)[1].question = c.question

\* the ids a call knows when it asks: those of results, or those its
\* fallback upload returned
KnownIds(c) ==
    IF Len(c.log) >= 1 /\ c.log[1].phase = "upload"
    THEN c.log[1].returned
    ELSE [i \in 1..Len(c.results) |-> c.results[i].document_id]

RetryAlwaysMultiWithReuploadedIds ==
    \A p \in ChatCalls :
        LET c == chats[p]
        IN  \A i \in InPhase(c.log, "retry") :
                /\ i >= 3
                /\ c.log[i - 1].phase = "reupload"
                /\ c.log[i].endpoint = "/chat-multi"
                /\ c.log[i].document_id = ""
                /\ c.log[i].document_ids = c.log[i - 1].returned

\* a request to /chat failed, the files were re-uploaded, and the question
\* was retried with ids that differ from the single id asked about first
SingleChatRetriedAsMulti ==
    \E p \in ChatCalls :
        LET c == chats[p]
        IN  \E i \in InPhase(c.log, "retry") :
                /\ c.log[i - 2].endpoint = "/chat"
                /\ c.log[i].document_ids # <<>>
                /\ c.log[i - 2].document_id \notin Range(c.log[i].document_ids)

====
